---------------------------- MODULE Spec2Model ----------------------------
(***************************************************************************)
(* Model of src/aistry.py, the Streamlit "Dynamic Perspective Story        *)
(* Generator".  Streamlit executes the script top to bottom once per user  *)
(* event (a widget change, a button click, a browser rerun); one action    *)
(* of the model is one such execution.  A text is the sequence of the      *)
(* literal pieces it is the concatenation of: typed text and message       *)
(* contents are sequences of characters, a literal of the source or a      *)
(* selectbox option is one piece.  Formatting, stripping and substring     *)
(* tests are computed on these sequences.                                  *)
(***************************************************************************)
EXTENDS Integers, Sequences, FiniteSets, TLC

VARIABLES
  client,          \* module global `client` (line 36): "None" or "Groq"
  widgets,         \* values returned by the sidebar widgets in this run (lines 44-64)
  story_template,  \* module global `story_template` (line 67)
  agent_output,    \* st.session_state.agent_output (lines 75-76, 106)
  action,          \* the user event that triggered this run
  requests,        \* completion requests issued during this run (line 81)
  response,        \* what the completion service did during this run
  errors,          \* st.error messages emitted during this run
  synth_calls,     \* texts handed to gTTS during this run (line 98)
  audio,           \* what st.audio played during this run (line 121)
  uncaught,        \* exception that propagated out of this run of the script
  convert_shown,   \* whether the "Convert to Audio" button was rendered (line 119)
  edits            \* number of widget changes made so far in the session

vars == <<client, widgets, story_template, agent_output, action, requests,
          response, errors, synth_calls, audio, uncaught, convert_shown, edits>>

-----------------------------------------------------------------------------
(* Bounds of the model *)

\* longest text typed into a free-text input
MaxTextLen == 1
\* longest message content returned by the completion service
MaxContentLen == 2
\* largest number of choices in one completion response
MaxChoices == 2
\* largest number of widget changes in one session
MaxEdits == 1

-----------------------------------------------------------------------------
(* Program constants *)

\* src/aistry.py:12-23
SUPPORTED_MODELS ==
  [n \in {"Llama 3.2 1B (Preview)", "Llama 3 70B", "Llama 3 8B", "Llama 3.1 70B",
          "Llama 3.1 8B", "Mixtral 8x7B", "Gemma 2 9B", "LLaVA 1.5 7B",
          "Llama 3.2 3B (Preview)", "Llama 3.2 11B Vision (Preview)"} |->
     CASE n = "Llama 3.2 1B (Preview)" -> "llama-3.2-1b-preview"
       [] n = "Llama 3 70B" -> "llama3-70b-8192"
       [] n = "Llama 3 8B" -> "llama3-8b-8192"
       [] n = "Llama 3.1 70B" -> "llama-3.1-70b-versatile"
       [] n = "Llama 3.1 8B" -> "llama-3.1-8b-instant"
       [] n = "Mixtral 8x7B" -> "mixtral-8x7b-32768"
       [] n = "Gemma 2 9B" -> "gemma2-9b-it"
       [] n = "LLaVA 1.5 7B" -> "llava-v1.5-7b-4096-preview"
       [] n = "Llama 3.2 3B (Preview)" -> "llama-3.2-3b-preview"
       [] n = "Llama 3.2 11B Vision (Preview)" -> "llama-3.2-11b-vision-preview"]

\* src/aistry.py:60, list(SUPPORTED_MODELS.keys()) in insertion order
ModelNames ==
  <<"Llama 3.2 1B (Preview)", "Llama 3 70B", "Llama 3 8B", "Llama 3.1 70B",
    "Llama 3.1 8B", "Mixtral 8x7B", "Gemma 2 9B", "LLaVA 1.5 7B",
    "Llama 3.2 3B (Preview)", "Llama 3.2 11B Vision (Preview)">>

\* src/aistry.py:25
MAX_TOKENS == 1000

\* src/aistry.py:64, the slider's range and default in hundredths
MinTemperature == 0
MaxTemperature == 100
DefaultTemperature == 70

\* src/aistry.py:84
SystemPersona == <<"You are a creative AI story generator.">>

\* the literal text of the f-string (lines 67-72) before {perspective}
Segment0 ==
  <<"\nYou are observing the world as a ">>

\* the literal text of the f-string (lines 67-72) before {time_of_day}
Segment1 ==
  <<". It is ">>

\* the literal text of the f-string (lines 67-72) before {weather}
Segment2 ==
  <<", and the weather is ">>

\* the literal text of the f-string (lines 67-72) before {environment}
Segment3 ==
  <<". \nYou are in a ">>

\* the literal text of the f-string (lines 67-72) before {interaction}
Segment4 ==
  <<" environment. As you move through this space, describe your interaction with ">>

\* the literal text of the f-string (lines 67-72) before {story_topic}
Segment5 ==
  <<".\nMake sure to include elements that reflect the topic of ">>

\* the literal text of the f-string (lines 67-72) after {story_topic}
Segment6 ==
  <<". \nFocus on sensory observations such as sights, sounds, and ",
    "textures, and reflect on the experience from your unique perspective.\n">>

\* the options of the selectbox of line 47-50
Perspectives ==
  <<<<"Ant">>, <<"Bird">>, <<"Wind">>, <<"Cloud">>, <<"Tree">>, <<"Rock">>, <<"Shadow">>,
    <<"Raindrop">>, <<"Spider">>, <<"Grain of Sand">>>>

\* the options of the selectbox of line 53
TimesOfDay ==
  <<<<"Morning">>, <<"Afternoon">>, <<"Evening">>, <<"Night">>>>

\* the options of the selectbox of line 54
Weathers ==
  <<<<"Sunny">>, <<"Cloudy">>, <<"Rainy">>, <<"Windy">>, <<"Stormy">>>>

\* the options of the selectbox of line 55
Environments ==
  <<<<"Forest">>, <<"City">>, <<"Desert">>, <<"Beach">>, <<"Mountain">>>>

-----------------------------------------------------------------------------
(* Text *)

Range(s) == {s[i] : i \in 1..Len(s)}

\* all sequences over chars of length at most n
RECURSIVE SeqsUpTo(_, _)
SeqsUpTo(chars, n) ==
  IF n = 0 THEN {<<>>}
  ELSE LET shorter == SeqsUpTo(chars, n - 1)
       IN  shorter \cup {Append(s, c) : s \in shorter, c \in chars}

\* characters Python's str.strip() removes
Whitespace == {" ", "\t", "\n", "\r", "\f"}

RECURSIVE LStrip(_)
LStrip(s) == IF s # <<>> /\ Head(s) \in Whitespace THEN LStrip(Tail(s)) ELSE s

RECURSIVE RStrip(_)
RStrip(s) ==
  IF s # <<>> /\ s[Len(s)] \in Whitespace THEN RStrip(SubSeq(s, 1, Len(s) - 1)) ELSE s

\* str.strip() (line 90)
Strip(s) == RStrip(LStrip(s))

\* Python's `t in s`: t occurs in s as a run of consecutive pieces
Contains(s, t) ==
  \E i \in 0..(Len(s) - Len(t)) : SubSeq(s, i + 1, i + Len(t)) = t

-----------------------------------------------------------------------------
(* Optional values and truthiness *)

None == [tag |-> "None"]
Str(s) == [tag |-> "str", text |-> s]

\* variant of Truthy that tests `is not None` instead of truthiness
Truthy_NotNone(v) == v.tag = "str"

\* Python truthiness of an Optional[str] (line 115)
Truthy(v) == v.tag = "str" /\ v.text # <<>>

-----------------------------------------------------------------------------
(* Inputs *)

\* what a user types into a text_input
TextChars == {"z"}
Texts == SeqsUpTo(TextChars, MaxTextLen)

\* message contents the completion service returns (strings, as in the response
\* format the script reads)
ContentChars == {"a", " "}
Contents == SeqsUpTo(ContentChars, MaxContentLen)

\* content of the choices after the first one
OtherContent == <<"b">>

ChoiceLists ==
  {<<>>} \cup
  {<<c>> \o [i \in 1..k |-> OtherContent] : c \in Contents, k \in 0..(MaxChoices - 1)}

\* behaviours of client.chat.completions.create: it raises, or returns a response
ApiOutcomes ==
  {[kind |-> "raise", choices |-> <<>>]} \cup
  {[kind |-> "ok", choices |-> cs] : cs \in ChoiceLists}

NoCall == [kind |-> "none", choices |-> <<>>]

\* behaviours of gTTS(...).save
SynthOutcomes == {"ok", "gTTSError"}

Temperatures == {MinTemperature, DefaultTemperature, MaxTemperature}

\* the widget values of the first run: first option of each selectbox, empty text inputs
DefaultWidgets ==
  [story_topic |-> <<>>, perspective |-> Perspectives[1], time_of_day |-> TimesOfDay[1],
   weather |-> Weathers[1], environment |-> Environments[1], interaction |-> <<>>,
   selected_model |-> ModelNames[1], temperature |-> DefaultTemperature]

\* the values each widget can return (lines 44-64)
WidgetOptions ==
  [story_topic |-> Texts, perspective |-> Range(Perspectives),
   time_of_day |-> Range(TimesOfDay), weather |-> Range(Weathers),
   environment |-> Range(Environments), interaction |-> Texts,
   selected_model |-> Range(ModelNames), temperature |-> Temperatures]

-----------------------------------------------------------------------------
(* The script *)

\* get_groq_client (lines 28-36); keyPresent is whether GROQ_API_KEY is set.  The
\* function is a cached resource: its body runs in the first run of the session only.
get_groq_client(keyPresent) ==
  IF ~keyPresent
  THEN [value |-> "None", errors |-> <<"GROQ_API_KEY not found in environment variables.">>]
  ELSE [value |-> "Groq", errors |-> <<>>]

\* variant of StoryTemplate that leaves the topic out
StoryTemplate_NoTopic(w) ==
  Segment0 \o w.perspective \o Segment1 \o w.time_of_day \o Segment2 \o w.weather \o
  Segment3 \o w.environment \o Segment4 \o w.interaction \o Segment5 \o Segment6

\* the f-string of lines 67-72
StoryTemplate(w) ==
  Segment0 \o w.perspective \o Segment1 \o w.time_of_day \o Segment2 \o w.weather \o
  Segment3 \o w.environment \o Segment4 \o w.interaction \o Segment5 \o w.story_topic \o
  Segment6

\* variant of resolveModelId that falls back to the first model, as dict.get would
resolveModelId_Fallback(name) ==
  IF name \in DOMAIN SUPPORTED_MODELS
  THEN [ok |-> TRUE, id |-> SUPPORTED_MODELS[name]]
  ELSE [ok |-> TRUE, id |-> SUPPORTED_MODELS[ModelNames[1]]]

\* SUPPORTED_MODELS[name] (line 82): a dict subscript raises KeyError on a missing key
resolveModelId(name) ==
  IF name \in DOMAIN SUPPORTED_MODELS
  THEN [ok |-> TRUE, id |-> SUPPORTED_MODELS[name]]
  ELSE [ok |-> FALSE, id |-> ""]

\* the keyword arguments of client.chat.completions.create (lines 81-89)
CompletionRequest(prompt, w) ==
  [model |-> resolveModelId(w.selected_model).id,
   messages |-> <<[role |-> "system", content |-> SystemPersona],
                  [role |-> "user", content |-> prompt]>>,
   temperature |-> w.temperature,
   max_tokens |-> MAX_TOKENS]

\* variant of FirstChoiceText that reads the last choice
FirstChoiceText_Last(choices) == Strip(choices[Len(choices)])

\* response.choices[0].message.content.strip() (line 90)
FirstChoiceText(choices) == Strip(choices[1])

\* variant of get_groq_response that repeats a request that raised
get_groq_response_Retry(prompt, w, outcome) ==
  IF ~resolveModelId(w.selected_model).ok
  THEN [ret |-> <<>>, requests |-> <<>>, response |-> NoCall, errors |-> <<"Error: KeyError">>]
  ELSE LET sent == <<CompletionRequest(prompt, w)>>
       IN  IF outcome.kind = "raise"
           THEN [ret |-> <<>>, requests |-> sent \o sent, response |-> outcome,
                 errors |-> <<"Error: APIError">>]
           ELSE IF outcome.choices = <<>>
           THEN [ret |-> <<>>, requests |-> sent, response |-> outcome,
                 errors |-> <<"Error: IndexError">>]
           ELSE [ret |-> FirstChoiceText(outcome.choices), requests |-> sent,
                 response |-> outcome, errors |-> <<>>]

\* get_groq_response (lines 79-93)
get_groq_response(prompt, w, outcome) ==
  IF ~resolveModelId(w.selected_model).ok
  THEN [ret |-> <<>>, requests |-> <<>>, response |-> NoCall, errors |-> <<"Error: KeyError">>]
  ELSE LET sent == <<CompletionRequest(prompt, w)>>
       IN  IF outcome.kind = "raise"
           THEN [ret |-> <<>>, requests |-> sent, response |-> outcome,
                 errors |-> <<"Error: APIError">>]
           ELSE IF outcome.choices = <<>>
           THEN [ret |-> <<>>, requests |-> sent, response |-> outcome,
                 errors |-> <<"Error: IndexError">>]
           ELSE [ret |-> FirstChoiceText(outcome.choices), requests |-> sent,
                 response |-> outcome, errors |-> <<>>]

\* generate_audio (lines 96-101); gTTS asserts that its text is not empty
generate_audio(text, outcome) ==
  IF text = <<>> THEN [raised |-> "AssertionError", file |-> "none"]
  ELSE IF outcome = "ok" THEN [raised |-> "none", file |-> "mp3"]
  ELSE [raised |-> outcome, file |-> "none"]

\* variant of the handler that does not test the client before calling
GenerateHandler_NoClientTest(prompt, w, outcome) ==
  LET r == get_groq_response(prompt, w, outcome)
  IN  [output |-> Str(r.ret), requests |-> r.requests, response |-> r.response,
       errors |-> r.errors]

\* variant of the handler that blanks the story when there is no client
GenerateHandler_BlankWithoutClient(prompt, w, outcome) ==
  IF client = "Groq"
  THEN LET r == get_groq_response(prompt, w, outcome)
       IN  [output |-> Str(r.ret), requests |-> r.requests, response |-> r.response,
            errors |-> r.errors]
  ELSE [output |-> Str(<<>>), requests |-> <<>>, response |-> NoCall,
        errors |-> <<"Groq client not initialized.">>]

\* the "Generate Story" handler (lines 104-108): the new session value and what it did
GenerateHandler(prompt, w, outcome) ==
  IF client = "Groq"
  THEN LET r == get_groq_response(prompt, w, outcome)
       IN  [output |-> Str(r.ret), requests |-> r.requests, response |-> r.response,
            errors |-> r.errors]
  ELSE [output |-> agent_output, requests |-> <<>>, response |-> NoCall,
        errors |-> <<"Groq client not initialized.">>]

\* one execution of the script (lines 38-126) with widget values w; generate and
\* convert tell which button, if any, was clicked
ScriptRun(w, generate, convert, outcome, synth) ==
  \E prompt \in {StoryTemplate(w)} :
  \E g \in {IF generate THEN GenerateHandler(prompt, w, outcome)
            ELSE [output |-> agent_output, requests |-> <<>>, response |-> NoCall,
                  errors |-> <<>>]} :
  \E shown \in {Truthy(g.output)} :
  \E a \in {IF shown /\ convert THEN generate_audio(g.output.text, synth)
            ELSE [raised |-> "none", file |-> "none"]} :
      /\ widgets' = w
      /\ story_template' = Str(prompt)
      /\ agent_output' = g.output
      /\ requests' = g.requests
      /\ response' = g.response
      /\ errors' = g.errors
      /\ convert_shown' = shown
      /\ synth_calls' = IF shown /\ convert THEN <<g.output.text>> ELSE <<>>
      /\ audio' = a.file
      /\ uncaught' = a.raised
      /\ UNCHANGED client

-----------------------------------------------------------------------------
(* The session *)

\* the state after the first run of a new session (lines 28-36, 74-76)
Init ==
  /\ \E keyPresent \in BOOLEAN :
       /\ client = get_groq_client(keyPresent).value
       /\ errors = get_groq_client(keyPresent).errors
  /\ widgets = DefaultWidgets
  /\ story_template = Str(StoryTemplate(DefaultWidgets))
  /\ agent_output = None
  /\ action = "start"
  /\ requests = <<>>
  /\ response = NoCall
  /\ synth_calls = <<>>
  /\ audio = "none"
  /\ uncaught = "none"
  /\ convert_shown = FALSE
  /\ edits = 0

\* the user reruns the page without touching a widget
Rerun ==
  /\ action' = "rerun"
  /\ ScriptRun(widgets, FALSE, FALSE, NoCall, "ok")
  /\ UNCHANGED edits

\* the user changes one sidebar widget (lines 44-64)
ChangeWidget ==
  /\ edits < MaxEdits
  /\ \E f \in DOMAIN widgets : \E v \in WidgetOptions[f] :
       /\ v # widgets[f]
       /\ ScriptRun([widgets EXCEPT ![f] = v], FALSE, FALSE, NoCall, "ok")
  /\ action' = "edit"
  /\ edits' = edits + 1

\* the user clicks "Generate Story" (line 104)
ClickGenerate ==
  /\ \E outcome \in ApiOutcomes : ScriptRun(widgets, TRUE, FALSE, outcome, "ok")
  /\ action' = "generate"
  /\ UNCHANGED edits

\* the user clicks "Convert to Audio" (line 119), which exists only if it was rendered
ClickConvert ==
  /\ convert_shown
  /\ \E synth \in SynthOutcomes : ScriptRun(widgets, FALSE, TRUE, NoCall, synth)
  /\ action' = "convert"
  /\ UNCHANGED edits

Next == Rerun \/ ChangeWidget \/ ClickGenerate \/ ClickConvert

Spec == Init /\ [][Next]_vars

-----------------------------------------------------------------------------
(* The prompt template on its own: every combination of widget values *)

WidgetValues ==
  [story_topic : Texts, perspective : Range(Perspectives), time_of_day : Range(TimesOfDay),
   weather : Range(Weathers), environment : Range(Environments), interaction : Texts,
   selected_model : {ModelNames[1]}, temperature : {DefaultTemperature}]

\* a run that has reached line 66 with any values of the six story parameters
InitPrompt ==
  /\ widgets \in WidgetValues
  /\ story_template = None
  /\ client = "Groq"
  /\ agent_output = None
  /\ action = "start"
  /\ requests = <<>>
  /\ response = NoCall
  /\ errors = <<>>
  /\ synth_calls = <<>>
  /\ audio = "none"
  /\ uncaught = "none"
  /\ convert_shown = FALSE
  /\ edits = 0

\* lines 67-72 are executed
BuildPrompt ==
  /\ story_template = None
  /\ story_template' = Str(StoryTemplate(widgets))
  /\ action' = "build"
  /\ UNCHANGED <<client, widgets, agent_output, requests, response, errors, synth_calls,
                 audio, uncaught, convert_shown, edits>>

\* lines 67-72 are executed again, in a later run with the same widget values
RebuildPrompt ==
  /\ story_template # None
  /\ story_template' = Str(StoryTemplate(widgets))
  /\ action' = "rerun"
  /\ UNCHANGED <<client, widgets, agent_output, requests, response, errors, synth_calls,
                 audio, uncaught, convert_shown, edits>>

NextPrompt == BuildPrompt \/ RebuildPrompt

SpecPrompt == InitPrompt /\ [][NextPrompt]_vars

-----------------------------------------------------------------------------
(* Properties *)

\* a stored story that is present and not empty
NonEmptyStory(v) == v.tag = "str" /\ v.text # <<>>

\* this run called the completion service and the call failed: it raised, or it
\* returned a response without choices
GenerationFailed ==
  /\ action = "generate"
  /\ requests # <<>>
  /\ response.kind = "raise" \/ (response.kind = "ok" /\ response.choices = <<>>)

\* this run called the completion service and read a first choice
GenerationSucceeded ==
  /\ action = "generate"
  /\ response.kind = "ok"
  /\ response.choices # <<>>

\* C1: a "Generate Story" action whose completion call fails leaves the stored story
\* exactly as it was before the action.
C1_FailedGenerationKeepsStory ==
  [][GenerationFailed' => agent_output' = agent_output]_vars

\* C2: without the credential no completion request is ever issued; startup shows the
\* configuration error, each "Generate Story" shows an error, and the stored story
\* stays what it was at session start.
C2_NoCredentialNoRequest ==
  client = "None" =>
    /\ requests = <<>>
    /\ response = NoCall
    /\ agent_output = None
    /\ action = "start" => errors # <<>>
    /\ action = "generate" => errors = <<"Groq client not initialized.">>

C2_Witness == client = "None" /\ action = "generate"

\* t has no whitespace at either end
IsTrimmed(t) == t = <<>> \/ (t[1] \notin Whitespace /\ t[Len(t)] \notin Whitespace)

\* t is s without its leading and trailing whitespace
IsTrimOf(t, s) ==
  /\ IsTrimmed(t)
  /\ \E i \in 0..Len(s) : \E j \in 0..Len(s) :
       /\ i + Len(t) + j = Len(s)
       /\ SubSeq(s, i + 1, i + Len(t)) = t
       /\ \A k \in 1..i : s[k] \in Whitespace
       /\ \A k \in (Len(s) - j + 1)..Len(s) : s[k] \in Whitespace

\* C3: after a successful "Generate Story" the stored story is exactly the trimmed
\* content of the first choice of that run's response, whatever was stored before.
C3_StoryIsTrimmedFirstChoice ==
  GenerationSucceeded =>
    /\ agent_output.tag = "str"
    /\ IsTrimOf(agent_output.text, response.choices[1])

C3_Witness ==
  /\ GenerationSucceeded
  /\ Len(response.choices) > 1
  /\ agent_output.text # <<>>
  /\ agent_output.text # response.choices[1]

\* C4: no error raised during a user action escapes the handler of that action.
C4_NoErrorEscapes == uncaught = "none"

\* C5: once a non-empty story is stored, every later state of the session holds a
\* non-empty story.
C5_StoryNeverCleared ==
  [][NonEmptyStory(agent_output) => NonEmptyStory(agent_output')]_vars

\* C6: a "Generate Story" with a credential issues exactly one completion request,
\* on success and on failure; it carries the system persona, then the assembled
\* prompt as the user message, the selected temperature and a token budget of 1000.
\* No other run issues a request.
C6_OneRequestPerGeneration ==
  /\ (action = "generate" /\ client = "Groq") =>
       /\ Len(requests) = 1
       /\ Len(requests[1].messages) = 2
       /\ requests[1].messages[1] = [role |-> "system", content |-> SystemPersona]
       /\ requests[1].messages[2] = [role |-> "user", content |-> story_template.text]
       /\ requests[1].temperature = widgets.temperature
       /\ requests[1].max_tokens = 1000
  /\ action # "generate" => requests = <<>>

C6_Witness ==
  /\ GenerationFailed
  /\ widgets.story_topic # <<>>
  /\ Len(requests) = 1

\* display names that are not registered
UnregisteredNames == {"", "GPT-4", "llama3-70b-8192", "llama 3 70b", "Llama 3 70B "}

\* C7: the registry maps each of its 10 display names to a non-empty identifier,
\* "Llama 3 70B" to "llama3-70b-8192"; an unregistered name resolves to no identifier
\* and a generation with it ends in an error without a request; every request carries
\* the registry value of the selected display name.
C7_ModelRegistry ==
  /\ Cardinality(DOMAIN SUPPORTED_MODELS) = 10
  /\ \A n \in DOMAIN SUPPORTED_MODELS :
       resolveModelId(n).ok /\ resolveModelId(n).id # ""
  /\ resolveModelId("Llama 3 70B").id = "llama3-70b-8192"
  /\ \A n \in UnregisteredNames :
       /\ ~resolveModelId(n).ok
       /\ \A outcome \in ApiOutcomes :
            LET r == get_groq_response(story_template.text,
                                       [widgets EXCEPT !.selected_model = n], outcome)
            IN  r.requests = <<>> /\ r.errors = <<"Error: KeyError">>
  /\ widgets.selected_model \in DOMAIN SUPPORTED_MODELS
  /\ \A i \in 1..Len(requests) :
       requests[i].model = SUPPORTED_MODELS[widgets.selected_model]

C7_Witness ==
  /\ action = "generate"
  /\ requests # <<>>
  /\ widgets.selected_model = "Llama 3 70B"
  /\ requests[1].model = "llama3-70b-8192"

StoryFields ==
  {"perspective", "time_of_day", "weather", "environment", "story_topic", "interaction"}

\* C8: the assembled prompt contains each of the six parameter values, is never empty,
\* and a later run with the same values assembles the same prompt.
C8_PromptContainsParameters ==
  /\ [](story_template # None =>
          /\ \A f \in StoryFields : Contains(story_template.text, widgets[f])
          /\ story_template.text # <<>>)
  /\ [][(story_template # None /\ widgets' = widgets) =>
          story_template' = story_template]_vars

C8_Witness ==
  /\ action = "rerun"
  /\ story_template # None
  /\ widgets.story_topic = <<>>
  /\ widgets.interaction = <<>>
  /\ widgets.perspective = Perspectives[10]

\* C9: only a "Generate Story" run that issued its completion request changes the
\* stored story; "Convert to Audio", failed or not, a widget change and a rerun
\* leave it as it was.
C9_OnlyGenerateWrites ==
  [][/\ agent_output' # agent_output => (action' = "generate" /\ Len(requests') = 1)
     /\ action' \in {"convert", "edit", "rerun"} => agent_output' = agent_output]_vars

C9_Witness ==
  /\ action = "convert"
  /\ uncaught # "none"
  /\ NonEmptyStory(agent_output)

\* C10: the "Convert to Audio" button exists exactly while a non-empty story is
\* stored, and speech synthesis is only ever called, once, with that stored story.
C10_SynthesisTextNonEmpty ==
  /\ convert_shown <=> NonEmptyStory(agent_output)
  /\ action = "start" => ~convert_shown
  /\ synth_calls # <<>> =>
       /\ Len(synth_calls) = 1
       /\ action = "convert"
       /\ agent_output.tag = "str"
       /\ synth_calls[1] = agent_output.text
       /\ synth_calls[1] # <<>>

C10_Witness ==
  /\ action = "convert"
  /\ synth_calls # <<>>
  /\ audio = "mp3"

=============================================================================
